---- MODULE Spec2Model ----
(***************************************************************************)
(* A model of pythonbuild/buildenv.py: the two build-environment handles   *)
(* (ContainerContext, TempdirContext) and the build_environment scope that *)
(* creates one of them and tears it down.                                  *)
(* With it, a model of cpython-unix/build-main.py: the command that runs   *)
(* make and writes the distributable archive (SpecMain).                   *)
(*                                                                         *)
(* Representation.  A file name is a sequence of one-character strings     *)
(* (so that fnmatch and string comparison are computed), a path is a       *)
(* sequence of names, and the workspace of a handle (/build in a           *)
(* container, the temporary directory otherwise) is a set of entries       *)
(* [path, kind, mode, data].  Archive file names are TLA+ strings built    *)
(* by concatenation, as the f-strings of the source build them.            *)
(***************************************************************************)
EXTENDS Integers, Sequences, FiniteSets, TLC

VARIABLES
    pc,          \* "init" | "body" | "unwinding" | "exited": where the with-statement is
    client,      \* build_environment's client argument: "None" or "docker"
    image,       \* build_environment's image argument: "None" or an image name
    context,     \* the handle yielded: "none" | "container" | "tempdir"
    container,   \* the container: [state, command, detach, stop_timeout]
    td,          \* the TemporaryDirectory: "none" | "exists" | "deleted"
    fs,          \* the workspace tree of the handle (entries below /build or td)
    tools,       \* the Tool Root: the archives extracted into it
    build_files, \* the archives copied into the container's /build
    ncalls,      \* how many handle operations the body has called
    last,        \* the last handle operation: [op, args, steps, err, result]
    exc,         \* the exception in flight inside the scope ("none" if none)
    raised,      \* what the with-statement raised to its caller ("none" if nothing)
    main         \* one run of cpython-unix/build-main.py: its position and locals

vars == <<pc, client, image, context, container, td, fs, tools, build_files,
          ncalls, last, exc, raised, main>>

(***************************************************************************)
(* Bounds of the model.                                                    *)
(***************************************************************************)
\* The number of handle operations one scope body calls.
MaxCalls == 2

(***************************************************************************)
(* Names, paths and the trees a build can leave in the workspace.          *)
(***************************************************************************)
OUT == <<"o", "u", "t">>
LIB == <<"l", "i", "b">>
SUB == <<"s", "u", "b">>
A_SO == <<"a", ".", "s", "o">>
B_SO == <<"b", ".", "s", "o">>
C_TXT == <<"c", ".", "t", "x", "t">>

\* The code point of a character, for Python's string comparison.
Code(c) ==
    CASE c = "*" -> 42
      [] c = "." -> 46
      [] c = "/" -> 47
      [] c = "?" -> 63
      [] c = "a" -> 97
      [] c = "b" -> 98
      [] c = "c" -> 99
      [] c = "i" -> 105
      [] c = "l" -> 108
      [] c = "o" -> 111
      [] c = "s" -> 115
      [] c = "t" -> 116
      [] c = "u" -> 117
      [] c = "x" -> 120

\* Python's < on two strings (sequences of characters).
RECURSIVE StrLess(_, _)
StrLess(a, b) ==
    IF b = <<>> THEN FALSE
    ELSE IF a = <<>> THEN TRUE
    ELSE IF Head(a) = Head(b) THEN StrLess(Tail(a), Tail(b))
    ELSE Code(Head(a)) < Code(Head(b))

\* "/".join(path)
RECURSIVE Join(_)
Join(path) ==
    IF path = <<>> THEN <<>>
    ELSE IF Len(path) = 1 THEN path[1]
    ELSE path[1] \o <<"/">> \o Join(Tail(path))

\* The files and directories a build may create, each with its fixed mode
\* and contents.
Universe ==
    { [path |-> <<OUT>>, kind |-> "dir", mode |-> "755", data |-> ""],
      [path |-> <<OUT, LIB>>, kind |-> "dir", mode |-> "755", data |-> ""],
      [path |-> <<OUT, LIB, A_SO>>, kind |-> "file", mode |-> "755", data |-> "bytes of a.so"],
      [path |-> <<OUT, LIB, C_TXT>>, kind |-> "file", mode |-> "644", data |-> "bytes of c.txt"],
      [path |-> <<OUT, LIB, SUB>>, kind |-> "dir", mode |-> "755", data |-> ""],
      [path |-> <<OUT, LIB, SUB, B_SO>>, kind |-> "file", mode |-> "755", data |-> "bytes of b.so"] }

Parent(path) == SubSeq(path, 1, Len(path) - 1)
Basename(path) == path[Len(path)]
IsPrefix(p, q) == Len(p) <= Len(q) /\ SubSeq(q, 1, Len(p)) = p

Paths(tree) == { e.path : e \in tree }
IsDir(tree, p) == \E e \in tree : e.path = p /\ e.kind = "dir"
IsFile(tree, p) == \E e \in tree : e.path = p /\ e.kind = "file"
EntryAt(tree, p) == CHOOSE e \in tree : e.path = p

\* A tree holds the parent directory of everything in it.
Trees ==
    { t \in SUBSET Universe :
        \A e \in t : Len(e.path) > 1 => IsDir(t, Parent(e.path)) }

Children(tree, p) == { e \in tree : Len(e.path) = Len(p) + 1 /\ Parent(e.path) = p }

(***************************************************************************)
(* fnmatch, sorted() and the two directory traversals.                     *)
(***************************************************************************)
\* fnmatch.fnmatch(name, pat) for patterns of literals, "*" and "?".
RECURSIVE fnmatch(_, _)
fnmatch(name, pat) ==
    IF pat = <<>> THEN name = <<>>
    ELSE IF Head(pat) = "*"
        THEN fnmatch(name, Tail(pat)) \/ (name # <<>> /\ fnmatch(Tail(name), pat))
    ELSE IF Head(pat) = "?"
        THEN name # <<>> /\ fnmatch(Tail(name), Tail(pat))
    ELSE name # <<>> /\ Head(name) = Head(pat) /\ fnmatch(Tail(name), Tail(pat))

\* sorted(): the entries of a set of siblings in the order of their names.
RECURSIVE SortedByName(_)
SortedByName(S) ==
    IF S = {} THEN <<>>
    ELSE LET m == CHOOSE e \in S :
                      \A f \in S : f = e \/ StrLess(Basename(e.path), Basename(f.path))
         IN <<m>> \o SortedByName(S \ {m})

\* The names that have a sibling in some tree: the only ones whose place in a
\* directory listing matters.
SiblingNames ==
    { Basename(e.path) : e \in { x \in Universe :
        \E y \in Universe : y # x /\ Len(y.path) = Len(x.path) /\ Parent(y.path) = Parent(x.path) } }

RECURSIVE Perms(_)
Perms(S) ==
    IF S = {} THEN { <<>> }
    ELSE UNION { { <<x>> \o s : s \in Perms(S \ {x}) } : x \in S }

\* The orders in which the filesystem may list a directory (readdir): any.
ReaddirOrders == Perms(SiblingNames)

Rank(ord, name) ==
    IF \E i \in 1..Len(ord) : ord[i] = name
    THEN CHOOSE i \in 1..Len(ord) : ord[i] = name
    ELSE 0

\* The entries of a set of siblings as the filesystem lists them under ord.
RECURSIVE ListedBy(_, _)
ListedBy(S, ord) ==
    IF S = {} THEN <<>>
    ELSE LET m == CHOOSE e \in S :
                      \A f \in S : Rank(ord, Basename(e.path)) <= Rank(ord, Basename(f.path))
         IN <<m>> \o ListedBy(S \ {m}, ord)

\* The paths of a sequence of entries.
RECURSIVE PathsOf(_)
PathsOf(entries) ==
    IF entries = <<>> THEN <<>>
    ELSE <<Head(entries).path>> \o PathsOf(Tail(entries))

\* os.walk(root) with dirs.sort() and sorted(files): the files of root whose
\* name matches, in name order, then the same for each subdirectory in name
\* order.  Yields full paths.
RECURSIVE WalkSorted(_, _, _)
RECURSIVE WalkSortedDirs(_, _, _)
WalkSorted(tree, root, pattern) ==
    LET kids == Children(tree, root)
        files == SortedByName({ e \in kids : e.kind = "file" })
        dirs == SortedByName({ e \in kids : e.kind = "dir" })
        hits == SelectSeq(files, LAMBDA e : fnmatch(Basename(e.path), pattern))
    IN PathsOf(hits) \o WalkSortedDirs(tree, dirs, pattern)
WalkSortedDirs(tree, dirs, pattern) ==
    IF dirs = <<>> THEN <<>>
    ELSE WalkSorted(tree, Head(dirs).path, pattern)
             \o WalkSortedDirs(tree, Tail(dirs), pattern)

\* /usr/bin/find p -name pattern: p itself when its name matches, then what
\* is below p, each directory before its contents, in the order the
\* filesystem lists each directory.  Files and directories alike.
RECURSIVE FindLines(_, _, _, _)
RECURSIVE FindLinesEach(_, _, _, _)
FindLines(tree, p, pattern, ord) ==
    (IF fnmatch(Basename(p), pattern) THEN <<p>> ELSE <<>>)
        \o FindLinesEach(tree, ListedBy(Children(tree, p), ord), pattern, ord)
FindLinesEach(tree, entries, pattern, ord) ==
    IF entries = <<>> THEN <<>>
    ELSE FindLines(tree, Head(entries).path, pattern, ord)
             \o FindLinesEach(tree, Tail(entries), pattern, ord)

\* line[len(prefix):] and full[len(base) + 1:], on paths: what is left of
\* path after the first n components.
DropComponents(path, n) == SubSeq(path, n + 1, Len(path))

\* The same cut applied to each path of a sequence.
RECURSIVE DropEach(_, _)
DropEach(paths, n) ==
    IF paths = <<>> THEN <<>>
    ELSE <<DropComponents(Head(paths), n)>> \o DropEach(Tail(paths), n)

(***************************************************************************)
(* The package metadata table and the archive names.                       *)
(***************************************************************************)
\* downloads.DOWNLOADS, the entries the model uses, each with its version.
DOWNLOADS ==
    ("binutils" :> [version |-> "2.38"])
    @@ ("cpython-3.8" :> [version |-> "3.8.16"])
    @@ ("cpython-3.9" :> [version |-> "3.9.16"])
    @@ ("cpython-3.10" :> [version |-> "3.10.9"])
    @@ ("llvm-x86_64-linux" :> [version |-> "14.0.3+20220508"])
    @@ ("llvm-aarch64-macos" :> [version |-> "14.0.3+20220508"])
    @@ ("llvm-x86_64-macos" :> [version |-> "14.0.3+20220508"])
    @@ ("musl" :> [version |-> "1.2.3"])
    @@ ("openssl" :> [version |-> "1.1.1s"])

HostPlatforms == { "linux64", "macos" }
TargetTriples == { "x86_64-unknown-linux-gnu", "aarch64-apple-darwin" }
Optimizations == { "noopt", "debug" }
ArtifactPackages == { "openssl" }

\* utils.clang_toolchain: the LLVM package for the host platform and target.
clang_toolchain(host_platform, target_triple) ==
    IF host_platform = "linux64" THEN "llvm-x86_64-linux"
    ELSE IF target_triple = "aarch64-apple-darwin" THEN "llvm-aarch64-macos"
    ELSE "llvm-x86_64-macos"

\* The basename install_toolchain_archive resolves, in each class.
ContainerToolchainBasename(package_name, host_platform) ==
    package_name \o "-" \o DOWNLOADS[package_name].version \o "-" \o host_platform \o ".tar"
TempdirToolchainBasename(package_name, host_platform) ==
    package_name \o "-" \o DOWNLOADS[package_name].version \o "-" \o host_platform \o ".tar"

\* The artifact basename built as the toolchain basename is, without the
\* optimizations.
TempdirArtifactBasename_without_optimizations(package_name, target_triple, optimizations) ==
    package_name \o "-" \o DOWNLOADS[package_name].version \o "-" \o target_triple \o ".tar"

\* The basename install_artifact_archive resolves, in each class.
ContainerArtifactBasename(package_name, target_triple, optimizations) ==
    package_name \o "-" \o DOWNLOADS[package_name].version \o "-" \o target_triple
        \o "-" \o optimizations \o ".tar"
TempdirArtifactBasename(package_name, target_triple, optimizations) ==
    package_name \o "-" \o DOWNLOADS[package_name].version \o "-" \o target_triple
        \o "-" \o optimizations \o ".tar"

(***************************************************************************)
(* The state one handle operation works on, and what it does step by step. *)
(* st = [tools, build_files, steps, err]: the Tool Root, the archives in   *)
(* the container's /build, the calls made so far into the helpers          *)
(* (docker.py, utils.py) and the exception raised, "none" if none.  An     *)
(* operation stops at its first exception.                                 *)
(***************************************************************************)
Step(call, arg, user, ok) == [call |-> call, arg |-> arg, user |-> user, ok |-> ok]

\* docker.copy_file_to_container: sends the host file source into the
\* container as dest_path/dest_name; a source that does not exist is an error.
copy_file_to_container(st, build_dir, source, dest_path, dest_name) ==
    IF source \in build_dir
    THEN [st EXCEPT !.build_files = @ \cup { dest_path \o "/" \o dest_name },
                    !.steps = Append(@, Step("copy_file_to_container", source, "-", TRUE))]
    ELSE [st EXCEPT !.steps = Append(@, Step("copy_file_to_container", source, "-", FALSE)),
                    !.err = "FileNotFoundError"]

\* A command: a str (relative or absolute) or an argv list; tar names the
\* archive basename a /bin/tar -C /tools -xf /build/<basename> command extracts.
Command(isstr, absolute, text, tar) ==
    [isstr |-> isstr, absolute |-> absolute, text |-> text, tar |-> tar]

Programs ==
    { Command(TRUE, FALSE, "build-cpython.sh", ""),
      Command(FALSE, FALSE, "[make, install]", "") }

TarCommand(basename) ==
    Command(FALSE, FALSE, "[/bin/tar, -C, /tools, -xf, /build/" \o basename \o "]", basename)

Users == { "build", "root" }
ExitStatuses == { 0, 1 }

\* docker.container_exec: runs the command in the container as user and
\* raises when it exits non-zero.  The tar command extracts its archive into
\* the Tool Root, and exits non-zero when the archive is not in /build.
container_exec(st, program, user, status) ==
    LET ok == IF program.tar # ""
              THEN ("/build/" \o program.tar) \in st.build_files
              ELSE status = 0
    IN [st EXCEPT !.tools = IF ok /\ program.tar # "" THEN @ \cup { program.tar } ELSE @,
                  !.steps = Append(@, Step("container_exec", program.text, user, ok)),
                  !.err = IF ok THEN @ ELSE "CommandFailure"]

\* utils.exec_and_log: runs the command on the host, as the invoking user,
\* with cwd = td, and raises when it exits non-zero.
exec_and_log(st, program, status) ==
    [st EXCEPT !.steps = Append(@, Step("exec_and_log", program.text, "-", status = 0)),
               !.err = IF status = 0 THEN @ ELSE "CommandFailure"]

\* ContainerContext.run: a relative str is resolved against /build.
ContainerRun(st, program, user, status) ==
    LET resolved == IF program.isstr /\ ~program.absolute
                    THEN [program EXCEPT !.text = "/build/" \o @, !.absolute = TRUE]
                    ELSE program
    IN container_exec(st, resolved, user, status)

\* TempdirContext.run without its check of user: the command runs as the
\* invoking user whatever user was asked for.
TempdirRun_any_user(st, program, user, status) ==
    LET resolved == IF program.isstr /\ ~program.absolute
                    THEN [program EXCEPT !.text = "<td>/" \o @, !.absolute = TRUE]
                    ELSE program
    IN exec_and_log(st, resolved, status)

\* TempdirContext.run: any user but "build" is refused before anything else.
TempdirRun(st, program, user, status) ==
    IF user # "build"
    THEN [st EXCEPT !.err = "Exception: cannot change user in temp directory builds"]
    ELSE LET resolved == IF program.isstr /\ ~program.absolute
                         THEN [program EXCEPT !.text = "<td>/" \o @, !.absolute = TRUE]
                         ELSE program
         IN exec_and_log(st, resolved, status)

\* utils.extract_tar_to_directory(source, td / "tools"): a source that does
\* not exist is an error and nothing is extracted.
extract_tar_to_directory(st, build_dir, source) ==
    IF source \in build_dir
    THEN [st EXCEPT !.tools = @ \cup { source },
                    !.steps = Append(@, Step("extract_tar_to_directory", source, "-", TRUE))]
    ELSE [st EXCEPT !.steps = Append(@, Step("extract_tar_to_directory", source, "-", FALSE)),
                    !.err = "FileNotFoundError"]

\* ContainerContext.copy_file(source): dest_name or source.name, dest_path or "/build".
ContainerCopyFile(st, build_dir, source) ==
    copy_file_to_container(st, build_dir, source, "/build", source)

\* ContainerContext.install_toolchain_archive: copy the archive, then extract
\* it as root.
ContainerInstallToolchainArchive(st, build_dir, package_name, host_platform) ==
    LET basename == ContainerToolchainBasename(package_name, host_platform)
        copied == ContainerCopyFile(st, build_dir, basename)
    IN IF copied.err # "none" THEN copied
       ELSE ContainerRun(copied, TarCommand(basename), "root", 0)

\* install_artifact_archive with its two statements exchanged: the archive
\* is extracted before it is copied.
ContainerInstallArtifactArchive_extract_first(st, build_dir, package_name, target_triple, optimizations) ==
    LET basename == ContainerArtifactBasename(package_name, target_triple, optimizations)
        ran == ContainerRun(st, TarCommand(basename), "root", 0)
    IN IF ran.err # "none" THEN ran
       ELSE ContainerCopyFile(ran, build_dir, basename)

\* ContainerContext.install_artifact_archive.
ContainerInstallArtifactArchive(st, build_dir, package_name, target_triple, optimizations) ==
    LET basename == ContainerArtifactBasename(package_name, target_triple, optimizations)
        copied == ContainerCopyFile(st, build_dir, basename)
    IN IF copied.err # "none" THEN copied
       ELSE ContainerRun(copied, TarCommand(basename), "root", 0)

\* TempdirContext.install_toolchain_archive: extract into td / "tools".
TempdirInstallToolchainArchive(st, build_dir, package_name, host_platform) ==
    extract_tar_to_directory(st, build_dir, TempdirToolchainBasename(package_name, host_platform))

\* TempdirContext.install_artifact_archive.
TempdirInstallArtifactArchive(st, build_dir, package_name, target_triple, optimizations) ==
    extract_tar_to_directory(st, build_dir,
        TempdirArtifactBasename(package_name, target_triple, optimizations))

\* install_toolchain in the order of its parameters: binutils, musl, clang.
ContainerInstallToolchain_signature_order(st, build_dir, host_platform, target_triple, binutils, musl, clang) ==
    LET s1 == IF binutils
              THEN ContainerInstallToolchainArchive(st, build_dir, "binutils", host_platform)
              ELSE st
        s2 == IF s1.err = "none" /\ musl
              THEN ContainerInstallToolchainArchive(s1, build_dir, "musl", host_platform)
              ELSE s1
    IN IF s2.err = "none" /\ clang
       THEN ContainerInstallToolchainArchive(s2, build_dir,
                clang_toolchain(host_platform, target_triple), host_platform)
       ELSE s2

\* ContainerContext.install_toolchain: binutils, then clang, then musl, each
\* under its own flag.
ContainerInstallToolchain(st, build_dir, host_platform, target_triple, binutils, musl, clang) ==
    LET s1 == IF binutils
              THEN ContainerInstallToolchainArchive(st, build_dir, "binutils", host_platform)
              ELSE st
        s2 == IF s1.err = "none" /\ clang
              THEN ContainerInstallToolchainArchive(s1, build_dir,
                       clang_toolchain(host_platform, target_triple), host_platform)
              ELSE s1
    IN IF s2.err = "none" /\ musl
       THEN ContainerInstallToolchainArchive(s2, build_dir, "musl", host_platform)
       ELSE s2

\* install_toolchain with musl=True as its default: musl is installed
\* whether or not it was asked for.
TempdirInstallToolchain_musl_default(st, build_dir, platform, target_triple, binutils, musl, clang) ==
    LET s1 == IF binutils
              THEN TempdirInstallToolchainArchive(st, build_dir, "binutils", platform)
              ELSE st
        s2 == IF s1.err = "none" /\ clang
              THEN TempdirInstallToolchainArchive(s1, build_dir,
                       clang_toolchain(platform, target_triple), platform)
              ELSE s1
    IN IF s2.err = "none"
       THEN TempdirInstallToolchainArchive(s2, build_dir, "musl", platform)
       ELSE s2

\* TempdirContext.install_toolchain.
TempdirInstallToolchain(st, build_dir, platform, target_triple, binutils, musl, clang) ==
    LET s1 == IF binutils
              THEN TempdirInstallToolchainArchive(st, build_dir, "binutils", platform)
              ELSE st
        s2 == IF s1.err = "none" /\ clang
              THEN TempdirInstallToolchainArchive(s1, build_dir,
                       clang_toolchain(platform, target_triple), platform)
              ELSE s1
    IN IF s2.err = "none" /\ musl
       THEN TempdirInstallToolchainArchive(s2, build_dir, "musl", platform)
       ELSE s2

(***************************************************************************)
(* Tar archives.  An archive is the sequence of its members; a member is   *)
(* [name, kind, mode, data, mtime, uid, uname, pax].  raw is the metadata  *)
(* the capturing side stamps on the members.                               *)
(***************************************************************************)
RawMetadata ==
    { [mtime |-> "time of the build", uid |-> "1000", uname |-> "build", pax |-> "container"],
      [mtime |-> "time of the copy", uid |-> "501", uname |-> "host user", pax |-> ""] }

Member(e, name, raw) ==
    [name |-> name, kind |-> e.kind, mode |-> e.mode, data |-> e.data,
     mtime |-> raw.mtime, uid |-> raw.uid, uname |-> raw.uname, pax |-> raw.pax]

\* The members for a sequence of paths of tree, each named prefix/<its path
\* without its first n components>.
RECURSIVE Members(_, _, _, _, _)
Members(tree, paths, prefix, n, raw) ==
    IF paths = <<>> THEN <<>>
    ELSE << Member(EntryAt(tree, Head(paths)),
                   prefix \o DropComponents(Head(paths), n), raw) >>
             \o Members(tree, Tail(paths), prefix, n, raw)

\* Every path at or below p, each directory before its contents.
Below(tree, p, ord) == FindLines(tree, p, <<"*">>, ord)

\* docker.container_get_archive(container, path): the archive of path as the
\* container returns it, members named from the last component of path, the
\* directories included; a path that is not there is a not-found error.
container_get_archive(tree, p, raw, ord) ==
    IF p \notin Paths(tree)
    THEN [err |-> "NotFound", tar |-> <<>>]
    ELSE [err |-> "none",
          tar |-> Members(tree, Below(tree, p, ord), <<>>, Len(p) - 1, raw)]

\* utils.create_tar_from_directory(fh, p, path_prefix): the files below p,
\* walked in sorted order, named path_prefix/<path relative to p>.
create_tar_from_directory(tree, p, path_prefix, raw) ==
    Members(tree, WalkSorted(tree, p, <<"*">>), path_prefix, Len(p), raw)

\* The members of a set in the order of their names, as strings.
RECURSIVE SortedMembers(_)
SortedMembers(S) ==
    IF S = {} THEN <<>>
    ELSE LET m == CHOOSE e \in S :
                      \A f \in S : f = e \/ StrLess(Join(e.name), Join(f.name))
         IN <<m>> \o SortedMembers(S \ {m})

\* utils.normalize_tar_archive: the file members sorted by name, ownership
\* and modification time pinned, the extended headers dropped.
normalize_tar_archive(tar) ==
    LET files == { tar[i] : i \in { j \in 1..Len(tar) : tar[j].kind # "dir" } }
        pinned == { [m EXCEPT !.mtime = "DEFAULT_MTIME", !.uid = "0", !.uname = "root",
                              !.pax = ""] : m \in files }
    IN SortedMembers(pinned)

(***************************************************************************)
(* The retrieval operations of the two classes.  A path argument that may  *)
(* be None is [isNone, parts].                                             *)
(***************************************************************************)
None == [isNone |-> TRUE, parts |-> <<>>]
PathArg(parts) == [isNone |-> FALSE, parts |-> parts]

Return(value) == [err |-> "none", result |-> value]
Raise(err) == [err |-> err, result |-> <<>>]

\* ContainerContext.get_file: the contents of the first member of the
\* archive of /build/path.  tarfile's extractfile gives None for a member
\* that is not a regular file, and None has no read().
ContainerGetFile(tree, path, raw, ord) ==
    LET got == container_get_archive(tree, path, raw, ord)
    IN IF got.err # "none" THEN Raise(got.err)
       ELSE IF Len(got.tar) = 0 THEN Raise("Exception: file not found")
       ELSE IF got.tar[1].kind = "file" THEN Return(got.tar[1].data)
       ELSE Raise("AttributeError")

\* TempdirContext.get_file: (td / path).open("rb").read().
TempdirGetFile(tree, path) ==
    IF path \notin Paths(tree) THEN Raise("FileNotFoundError")
    ELSE IF IsDir(tree, path) THEN Raise("IsADirectoryError")
    ELSE Return(EntryAt(tree, path).data)

\* get_output_archive returning the captured archive as it is, without
\* normalize_tar_archive.
ContainerGetOutputArchive_raw(tree, path, raw, ord) ==
    LET p == IF ~path.isNone /\ path.parts # <<>> THEN <<OUT>> \o path.parts ELSE <<OUT>>
        got == container_get_archive(tree, p, raw, ord)
    IN IF got.err # "none" THEN Raise(got.err)
       ELSE Return(got.tar)

\* ContainerContext.get_output_archive: /build/out, or /build/out/<path>
\* when path is truthy, captured and normalized.
ContainerGetOutputArchive(tree, path, raw, ord) ==
    LET p == IF ~path.isNone /\ path.parts # <<>> THEN <<OUT>> \o path.parts ELSE <<OUT>>
        got == container_get_archive(tree, p, raw, ord)
    IN IF got.err # "none" THEN Raise(got.err)
       ELSE Return(normalize_tar_archive(got.tar))

\* TempdirContext.get_output_archive: td / "out" / path (None cannot be
\* joined to a path), captured under the prefix p.parts[-1] and normalized.
TempdirGetOutputArchive(tree, path, raw) ==
    IF path.isNone THEN Raise("TypeError")
    ELSE LET p == <<OUT>> \o path.parts
         IN Return(normalize_tar_archive(
                create_tar_from_directory(tree, p, <<Basename(p)>>, raw)))

\* ContainerContext.find_output_files: the lines of
\* /usr/bin/find /build/out/<base_path> -name pattern, each cut by the
\* length of "/build/out/<base_path>/".
ContainerFindOutputFiles(tree, base_path, pattern, ord) ==
    LET lines == FindLines(tree, <<OUT>> \o base_path, pattern, ord)
    IN Return(DropEach(lines, Len(base_path) + 1))

\* TempdirContext.find_output_files: os.walk with sorted directories and
\* files, the files whose name matches, each cut by len(base) + 1.
TempdirFindOutputFiles(tree, base_path, pattern) ==
    LET hits == WalkSorted(tree, <<OUT>> \o base_path, pattern)
    IN Return(DropEach(hits, Len(base_path) + 1))

\* The is_isolated property: True on a ContainerContext, False on a
\* TempdirContext.
is_isolated(ctx) == ctx = "container"

(***************************************************************************)
(* build_environment: entering and leaving the scope.                      *)
(***************************************************************************)
Clients == { "None", "docker" }
Images == { "None", "image-build" }

NoContainer == [state |-> "none", image |-> "None", command |-> "", detach |-> FALSE,
                stop_timeout |-> -1]

\* build_environment up to its yield.  client.containers.run fails when it is
\* given no image to start.
build_environment_enter(c, i) ==
    IF c # "None"
    THEN IF i = "None"
         THEN [err |-> "ResourceCreationFailure", context |-> "none",
               container |-> NoContainer, td |-> "none"]
         ELSE [err |-> "none", context |-> "container",
               container |-> [state |-> "running", image |-> i,
                              command |-> "/bin/sleep 86400", detach |-> TRUE,
                              stop_timeout |-> -1],
               td |-> "none"]
    ELSE [err |-> "none", context |-> "tempdir", container |-> NoContainer, td |-> "exists"]

\* build_environment with the teardown after the yield but outside a
\* finally clause: it runs only when the body returned.
build_environment_exit_without_finally(e, c, t, tree, tl, bf) ==
    IF e # "none"
    THEN [container |-> c, td |-> t, fs |-> tree, tools |-> tl, build_files |-> bf,
          raised |-> e]
    ELSE IF c.state # "none"
    THEN [container |-> [c EXCEPT !.state = "removed", !.stop_timeout = 0],
          td |-> t, fs |-> {}, tools |-> {}, build_files |-> {}, raised |-> e]
    ELSE [container |-> c, td |-> "deleted", fs |-> {}, tools |-> {},
          build_files |-> bf, raised |-> e]

\* build_environment with "except Exception: pass" in place of the finally
\* clause's propagation: the teardown runs and the exception is dropped.
build_environment_exit_swallowing(e, c, t, tree, tl, bf) ==
    IF c.state # "none"
    THEN [container |-> [c EXCEPT !.state = "removed", !.stop_timeout = 0],
          td |-> t, fs |-> {}, tools |-> {}, build_files |-> {}, raised |-> "none"]
    ELSE [container |-> c, td |-> "deleted", fs |-> {}, tools |-> {},
          build_files |-> bf, raised |-> "none"]

\* build_environment from its yield on: the finally clause, entered with the
\* body's exception e in flight ("none" when the body returned).  The
\* container is stopped with timeout 0 and removed, or the temporary
\* directory is cleaned up; the exception goes on to the caller.
build_environment_exit(e, c, t, tree, tl, bf) ==
    IF c.state # "none"
    THEN [container |-> [c EXCEPT !.state = "removed", !.stop_timeout = 0],
          td |-> t, fs |-> {}, tools |-> {}, build_files |-> {}, raised |-> e]
    ELSE [container |-> c, td |-> "deleted", fs |-> {}, tools |-> {},
          build_files |-> bf, raised |-> e]

(***************************************************************************)
(* cpython-unix/build-main.py: main() and the handler around it.  The      *)
(* outcome of main is [kind, value]: "running" while it runs, "return"     *)
(* with the value returned ("None" or "1"), or "raise" with the exception. *)
(* The targets, the Pythons each target supports and the release tag come  *)
(* from targets.yml, the environment and git: they are inputs.             *)
(***************************************************************************)
SysPlatforms == { "darwin", "linux", "win32" }
Machines == { "arm64", "x86_64", "i386" }
MainTargetTriples ==
    { "x86_64-unknown-linux-gnu", "x86_64-unknown-linux-musl", "aarch64-apple-darwin" }
MainOptimizations == { "noopt", "pgo+lto" }
\* The choices of --python.
PythonChoices == { "cpython-3.8", "cpython-3.9", "cpython-3.10", "cpython-3.11" }
\* Choices of --make-target: "default" and two of the others.
MakeTargets == { "default", "empty", "toolchain" }
\* settings["pythons_supported"] of a target.
PythonsSupported == { { "3.8", "3.9", "3.10" }, { "3.9", "3.10", "3.11" }, { "3.10" } }
ReleaseTags == { "20221220T1217" }
\* What subprocess.run sees of make: its exit status, or minus the number of
\* the signal that killed it.
ReturnCodes == { 0, 1, 2, -9 }

Running == [kind |-> "running", value |-> "-", returncode |-> 0]
Returned(value) == [kind |-> "return", value |-> value, returncode |-> 0]
Raised(exception, returncode) ==
    [kind |-> "raise", value |-> exception, returncode |-> returncode]

NoArgs == [target_triple |-> "", optimizations |-> "", python |-> "", make_target |-> ""]
NoMake == [ran |-> FALSE, target |-> "", version |-> "", returncode |-> 0]

MainNotStarted ==
    [pc |-> "start", host_platform |-> "", default_target_triple |-> "", args |-> NoArgs,
     supported_pythons |-> {}, version |-> "", release_tag |-> "",
     build_basename |-> "", dist_basename |-> "", make |-> NoMake,
     compressed |-> <<>>, outcome |-> Running, exit_status |-> -1]

\* main, its first statements: the host platform and the default target.
host_platform_of(sys_platform, machine) ==
    IF sys_platform = "darwin"
    THEN IF machine = "arm64"
         THEN [outcome |-> Running, host_platform |-> "macos",
               default_target_triple |-> "aarch64-apple-darwin"]
         ELSE IF machine = "x86_64"
         THEN [outcome |-> Running, host_platform |-> "macos",
               default_target_triple |-> "x86_64-apple-darwin"]
         ELSE [outcome |-> Raised("Exception: unhandled macOS machine value", 0),
               host_platform |-> "macos", default_target_triple |-> ""]
    ELSE IF sys_platform = "linux"
    THEN [outcome |-> Running, host_platform |-> "linux64",
          default_target_triple |-> "x86_64-unknown-linux-gnu"]
    ELSE [outcome |-> Returned("1"), host_platform |-> "", default_target_triple |-> ""]

\* supported_pythons = {f"cpython-{p}" for p in settings["pythons_supported"]}
supported_pythons_of(pythons_supported) == { "cpython-" \o p : p \in pythons_supported }

\* if args.python not in supported_pythons: ... return 1
check_python(python, supported_pythons) ==
    IF python \notin supported_pythons THEN Returned("1") ELSE Running

\* entry = DOWNLOADS[args.python]; entry["version"]: a key that is not in
\* the dict is a KeyError.
lookup_version(python) ==
    IF python \in DOMAIN DOWNLOADS
    THEN [outcome |-> Running, version |-> DOWNLOADS[python].version]
    ELSE [outcome |-> Raised("KeyError", 0), version |-> ""]

\* "-".join(archive_components) + ".tar"
build_basename_of(version, target_triple, optimizations) ==
    "cpython-" \o version \o "-" \o target_triple \o "-" \o optimizations \o ".tar"

\* "-".join(archive_components + [release_tag])
dist_basename_of(version, target_triple, optimizations, release_tag) ==
    "cpython-" \o version \o "-" \o target_triple \o "-" \o optimizations
        \o "-" \o release_tag

\* subprocess.run(["make", ...]) without check=True: a failed make is not
\* an exception.
run_make_unchecked(returncode) == Running

\* subprocess.run(["make", ...], env=env, check=True): a make that did not
\* return 0 raises CalledProcessError carrying its return code.
run_make(returncode) ==
    IF returncode # 0 THEN Raised("CalledProcessError", returncode) ELSE Running

\* if args.make_target == "default": compress_python_archive(...)
compresses(make_target) == make_target = "default"

\* The handler under __main__: sys.exit(main()), and sys.exit(e.returncode)
\* for a CalledProcessError; any other exception ends the interpreter with
\* status 1.  The status a process exits with is the low 8 bits of the
\* value given to sys.exit, and None is 0.
exit_status_of(outcome) ==
    IF outcome.kind = "return"
    THEN IF outcome.value = "None" THEN 0 ELSE 1
    ELSE IF outcome.value = "CalledProcessError"
    THEN outcome.returncode % 256
    ELSE 1

(***************************************************************************)
(* The state machine: one with-statement over build_environment, whose     *)
(* body calls operations of the handle, in any order, until one raises or  *)
(* the body returns.                                                       *)
(***************************************************************************)
NoCall == [op |-> "none", args |-> <<>>, steps |-> <<>>, err |-> "none", result |-> <<>>]

Init ==
    /\ pc = "init"
    /\ client = "None"
    /\ image = "None"
    /\ context = "none"
    /\ container = NoContainer
    /\ td = "none"
    /\ fs = {}
    /\ tools = {}
    /\ build_files = {}
    /\ ncalls = 0
    /\ last = NoCall
    /\ exc = "none"
    /\ raised = "none"
    /\ main = MainNotStarted

\* with build_environment(c, i) as context:
Enter(c, i) ==
    /\ pc = "init"
    /\ LET r == build_environment_enter(c, i)
       IN /\ client' = c
          /\ image' = i
          /\ context' = r.context
          /\ container' = r.container
          /\ td' = r.td
          /\ pc' = IF r.err = "none" THEN "body" ELSE "exited"
          /\ raised' = r.err
    /\ UNCHANGED <<main, fs, tools, build_files, ncalls, last, exc>>

InBody == pc = "body" /\ ncalls < MaxCalls

St0 == [tools |-> tools, build_files |-> build_files, steps |-> <<>>, err |-> "none"]

\* What a call of an operation that works on st leaves behind.
Called(op, args, st, result) ==
    /\ last' = [op |-> op, args |-> args, steps |-> st.steps, err |-> st.err,
                result |-> result]
    /\ tools' = st.tools
    /\ build_files' = st.build_files
    /\ ncalls' = ncalls + 1
    /\ exc' = st.err
    /\ pc' = IF st.err = "none" THEN "body" ELSE "unwinding"

\* What a call of a retrieval operation, with outcome r, leaves behind.
Retrieved(op, args, r) ==
    /\ last' = [op |-> op, args |-> args, steps |-> <<>>, err |-> r.err,
                result |-> r.result]
    /\ ncalls' = ncalls + 1
    /\ exc' = r.err
    /\ pc' = IF r.err = "none" THEN "body" ELSE "unwinding"
    /\ UNCHANGED <<tools, build_files, fs>>

ToolchainArchives(host_platform, target_triple) ==
    { ContainerToolchainBasename(pkg, host_platform) :
        pkg \in { "binutils", "musl", clang_toolchain(host_platform, target_triple) } }

\* context.install_toolchain(build_dir, host_platform, target_triple, ...)
InstallToolchain ==
    /\ InBody
    /\ \E host_platform \in HostPlatforms, target_triple \in TargetTriples,
          binutils \in BOOLEAN, musl \in BOOLEAN, clang \in BOOLEAN :
         \E build_dir \in SUBSET ToolchainArchives(host_platform, target_triple) :
            LET args == [build_dir |-> build_dir, host_platform |-> host_platform,
                         target_triple |-> target_triple, binutils |-> binutils,
                         musl |-> musl, clang |-> clang]
                st == IF context = "container"
                      THEN ContainerInstallToolchain(St0, build_dir, host_platform,
                               target_triple, binutils, musl, clang)
                      ELSE TempdirInstallToolchain(St0, build_dir, host_platform,
                               target_triple, binutils, musl, clang)
            IN Called("install_toolchain", args, st, <<>>)
    /\ UNCHANGED <<main, client, image, context, container, td, fs, raised>>

\* context.install_toolchain_archive(build_dir, package_name, host_platform)
InstallToolchainArchive ==
    /\ InBody
    /\ \E host_platform \in HostPlatforms, package_name \in { "binutils", "musl" },
          present \in BOOLEAN :
            LET basename == ContainerToolchainBasename(package_name, host_platform)
                build_dir == IF present THEN { basename } ELSE {}
                args == [build_dir |-> build_dir, package_name |-> package_name,
                         host_platform |-> host_platform]
                st == IF context = "container"
                      THEN ContainerInstallToolchainArchive(St0, build_dir, package_name,
                               host_platform)
                      ELSE TempdirInstallToolchainArchive(St0, build_dir, package_name,
                               host_platform)
            IN Called("install_toolchain_archive", args, st, <<>>)
    /\ UNCHANGED <<main, client, image, context, container, td, fs, raised>>

\* context.install_artifact_archive(build_dir, package_name, target_triple, optimizations)
InstallArtifactArchive ==
    /\ InBody
    /\ \E package_name \in ArtifactPackages, target_triple \in TargetTriples,
          optimizations \in Optimizations, present \in BOOLEAN :
            LET basename == ContainerArtifactBasename(package_name, target_triple,
                                optimizations)
                build_dir == IF present THEN { basename } ELSE {}
                args == [build_dir |-> build_dir, package_name |-> package_name,
                         target_triple |-> target_triple, optimizations |-> optimizations]
                st == IF context = "container"
                      THEN ContainerInstallArtifactArchive(St0, build_dir, package_name,
                               target_triple, optimizations)
                      ELSE TempdirInstallArtifactArchive(St0, build_dir, package_name,
                               target_triple, optimizations)
            IN Called("install_artifact_archive", args, st, <<>>)
    /\ UNCHANGED <<main, client, image, context, container, td, fs, raised>>

\* context.run(program, user): the command exits with status and, when it
\* exits 0, has left some tree in the workspace.
Run ==
    /\ InBody
    /\ \E program \in Programs, user \in Users, status \in ExitStatuses :
         LET args == [program |-> program, user |-> user, status |-> status]
             st == IF context = "container"
                   THEN ContainerRun(St0, program, user, status)
                   ELSE TempdirRun(St0, program, user, status)
         IN /\ Called("run", args, st, <<>>)
            /\ IF st.err = "none" THEN fs' \in Trees ELSE fs' = fs
    /\ UNCHANGED <<main, client, image, context, container, td, raised>>

\* context.get_file(path)
GetFile ==
    /\ InBody
    /\ \E path \in Paths(Universe) :
         IF context = "container"
         THEN \E raw \in RawMetadata, ord \in ReaddirOrders :
                Retrieved("get_file", [path |-> path],
                          ContainerGetFile(fs, path, raw, ord))
         ELSE Retrieved("get_file", [path |-> path], TempdirGetFile(fs, path))
    /\ UNCHANGED <<main, client, image, context, container, td, raised>>

ArchivePaths == { None, PathArg(<<>>), PathArg(<<LIB>>), PathArg(<<LIB, SUB>>) }

\* context.get_output_archive(path)
GetOutputArchive ==
    /\ InBody
    /\ \E path \in ArchivePaths, raw \in RawMetadata :
         IF context = "container"
         THEN \E ord \in ReaddirOrders :
                Retrieved("get_output_archive", [path |-> path],
                          ContainerGetOutputArchive(fs, path, raw, ord))
         ELSE Retrieved("get_output_archive", [path |-> path],
                        TempdirGetOutputArchive(fs, path, raw))
    /\ UNCHANGED <<main, client, image, context, container, td, raised>>

BasePaths == { <<LIB>>, <<LIB, SUB>> }
Patterns == { <<"*", ".", "s", "o">>, <<"*">>, <<"s", "*">> }

\* list(context.find_output_files(base_path, pattern)).  In a container the
\* base directory is taken to exist: what find prints for a missing one is
\* not modelled.
FindOutputFiles ==
    /\ InBody
    /\ \E base_path \in BasePaths, pattern \in Patterns :
         LET args == [base_path |-> base_path, pattern |-> pattern]
         IN IF context = "container"
            THEN /\ IsDir(fs, <<OUT>> \o base_path)
                 /\ \E ord \in ReaddirOrders :
                      Retrieved("find_output_files", args,
                                ContainerFindOutputFiles(fs, base_path, pattern, ord))
            ELSE Retrieved("find_output_files", args,
                           TempdirFindOutputFiles(fs, base_path, pattern))
    /\ UNCHANGED <<main, client, image, context, container, td, raised>>

\* Leaving the with-statement: the generator runs its finally clause.
Leave(e) ==
    LET r == build_environment_exit(e, container, td, fs, tools, build_files)
    IN /\ container' = r.container
       /\ td' = r.td
       /\ fs' = r.fs
       /\ tools' = r.tools
       /\ build_files' = r.build_files
       /\ raised' = r.raised
       /\ pc' = "exited"
       /\ exc' = "none"
       /\ UNCHANGED <<main, client, image, context, ncalls, last>>

\* The body returns.
BodyReturns == pc = "body" /\ Leave("none")

\* The body raised: the exception leaves the with-statement.
BodyRaises == pc = "unwinding" /\ Leave(exc)

Next ==
    \/ \E c \in Clients, i \in Images : Enter(c, i)
    \/ InstallToolchain
    \/ InstallToolchainArchive
    \/ InstallArtifactArchive
    \/ Run
    \/ GetFile
    \/ GetOutputArchive
    \/ FindOutputFiles
    \/ BodyReturns
    \/ BodyRaises

Spec == Init /\ [][Next]_vars

(***************************************************************************)
(* One run of build-main.py, statement by statement.                       *)
(***************************************************************************)
BuildEnvironmentIdle ==
    UNCHANGED <<pc, client, image, context, container, td, fs, tools, build_files,
                ncalls, last, exc, raised>>

\* main is left by a return or by an exception.
Ends(m, outcome) == [m EXCEPT !.pc = "ended", !.outcome = outcome]

\* sys.platform and platform.machine() decide the host platform.
MainPlatform ==
    /\ main.pc = "start"
    /\ \E sys_platform \in SysPlatforms, machine \in Machines :
         LET r == host_platform_of(sys_platform, machine)
             m == [main EXCEPT !.host_platform = r.host_platform,
                               !.default_target_triple = r.default_target_triple]
         IN main' = IF r.outcome.kind = "running"
                    THEN [m EXCEPT !.pc = "platform"]
                    ELSE Ends(m, r.outcome)
    /\ BuildEnvironmentIdle

\* parser.parse_args(), get_target_settings and the supported Pythons.
MainParseArgs ==
    /\ main.pc = "platform"
    /\ \E target_triple \in MainTargetTriples, optimizations \in MainOptimizations,
          python \in PythonChoices, make_target \in MakeTargets,
          pythons_supported \in PythonsSupported :
         main' = [main EXCEPT
                    !.pc = "parsed",
                    !.args = [target_triple |-> target_triple,
                              optimizations |-> optimizations,
                              python |-> python, make_target |-> make_target],
                    !.supported_pythons = supported_pythons_of(pythons_supported)]
    /\ BuildEnvironmentIdle

\* The check of args.python against the Pythons the target supports.
MainCheckPython ==
    /\ main.pc = "parsed"
    /\ LET r == check_python(main.args.python, main.supported_pythons)
       IN main' = IF r.kind = "running" THEN [main EXCEPT !.pc = "checked"]
                  ELSE Ends(main, r)
    /\ BuildEnvironmentIdle

\* The version lookup, the release tag and the two basenames.
MainLookupVersion ==
    /\ main.pc = "checked"
    /\ \E release_tag \in ReleaseTags :
         LET r == lookup_version(main.args.python)
         IN main' = IF r.outcome.kind = "running"
                    THEN [main EXCEPT
                            !.pc = "ready",
                            !.version = r.version,
                            !.release_tag = release_tag,
                            !.build_basename =
                                build_basename_of(r.version, main.args.target_triple,
                                                  main.args.optimizations),
                            !.dist_basename =
                                dist_basename_of(r.version, main.args.target_triple,
                                                 main.args.optimizations, release_tag)]
                    ELSE Ends(main, r.outcome)
    /\ BuildEnvironmentIdle

\* make runs to its end and subprocess.run returns or raises.
MainMake ==
    /\ main.pc = "ready"
    /\ \E returncode \in ReturnCodes :
         LET r == run_make(returncode)
             m == [main EXCEPT !.make = [ran |-> TRUE, target |-> main.args.make_target,
                                         version |-> main.version,
                                         returncode |-> returncode]]
         IN main' = IF r.kind = "running" THEN [m EXCEPT !.pc = "made"]
                    ELSE Ends(m, r)
    /\ BuildEnvironmentIdle

\* DIST.mkdir, the distributable archive for the default target, and the
\* end of main (which returns None).
MainArchive ==
    /\ main.pc = "made"
    /\ LET m == IF compresses(main.args.make_target)
                THEN [main EXCEPT !.compressed =
                          Append(@, [source |-> main.build_basename,
                                     basename |-> main.dist_basename])]
                ELSE main
       IN main' = Ends(m, Returned("None"))
    /\ BuildEnvironmentIdle

\* The process exits.
MainExit ==
    /\ main.pc = "ended"
    /\ main' = [main EXCEPT !.pc = "exited", !.exit_status = exit_status_of(main.outcome)]
    /\ BuildEnvironmentIdle

NextMain ==
    \/ MainPlatform
    \/ MainParseArgs
    \/ MainCheckPython
    \/ MainLookupVersion
    \/ MainMake
    \/ MainArchive
    \/ MainExit

SpecMain == Init /\ [][NextMain]_vars

(***************************************************************************)
(* The claims.                                                             *)
(***************************************************************************)
Entered == context # "none"

\* C1: whenever control has left a build_environment scope that was entered,
\* by the body returning or by the body raising at any step, the backend has
\* been torn down: the container has been stopped with timeout 0 and removed,
\* or the temporary directory and everything in it has been deleted.
C1_TornDownOnEveryExit ==
    (pc = "exited" /\ Entered) =>
        /\ context = "container" =>
              /\ container.state = "removed"
              /\ container.stop_timeout = 0
              /\ fs = {} /\ tools = {} /\ build_files = {}
        /\ context = "tempdir" =>
              /\ td = "deleted"
              /\ fs = {} /\ tools = {}

\* C1's case: the scope was left by an install_toolchain whose first install
\* succeeded and whose second failed.
C1_Witness ==
    /\ pc = "exited"
    /\ Entered
    /\ raised = "FileNotFoundError"
    /\ last.op = "install_toolchain"
    /\ Len(last.steps) >= 2
    /\ last.steps[1].ok
    /\ ~last.steps[Len(last.steps)].ok

\* C2: TempdirContext.run with a user other than "build" raises, and no
\* command has been launched by the call, as any user.
C2_TempdirRunRefusesOtherUsers ==
    (last.op = "run" /\ context = "tempdir" /\ last.args.user # "build") =>
        /\ last.err = "Exception: cannot change user in temp directory builds"
        /\ last.steps = <<>>
        /\ pc \in { "unwinding", "exited" }

\* C2's case: run was called as root on a tempdir handle.
C2_Witness ==
    /\ last.op = "run"
    /\ context = "tempdir"
    /\ last.args.user = "root"
    /\ last.args.status = 0
    /\ pc = "unwinding"

\* C3: an error raised by an operation inside the scope ends the body (no
\* later operation is called), stays in flight until the teardown, and is
\* what the scope raises to its caller.
C3_ErrorsReachTheCaller ==
    /\ (last.err # "none") => pc \in { "unwinding", "exited" }
    /\ (pc = "unwinding") => (exc = last.err /\ exc # "none")
    /\ (pc = "exited" /\ Entered) => raised = last.err

\* C3's case: a command failed in run, and the scope has raised that failure
\* after the teardown.
C3_Witness ==
    /\ pc = "exited"
    /\ raised = "CommandFailure"
    /\ last.op = "run"
    /\ last.err = "CommandFailure"
    /\ (container.state = "removed" \/ td = "deleted")

\* C4: for the tree in the workspace and every subpath that names a directory
\* of it, the archive get_output_archive returns is the same on a container
\* handle and on a tempdir handle, whatever metadata either capture stamped
\* on the members and in whatever order the container listed them, and
\* every member is named under the last component of the captured path.
C4_ArchivesAgreeAcrossBackends ==
    \A path \in ArchivePaths :
        (~path.isNone /\ IsDir(fs, <<OUT>> \o path.parts)) =>
            \A rc \in RawMetadata, rt \in RawMetadata, ord \in ReaddirOrders :
                LET c == ContainerGetOutputArchive(fs, path, rc, ord)
                    t == TempdirGetOutputArchive(fs, path, rt)
                IN /\ c.err = "none"
                   /\ t.err = "none"
                   /\ c.result = t.result
                   /\ \A i \in 1..Len(c.result) :
                         /\ c.result[i].name[1] = Basename(<<OUT>> \o path.parts)
                         /\ t.result[i].name[1] = Basename(<<OUT>> \o path.parts)

\* C4's case: get_output_archive has returned the archive of out/lib, a
\* directory holding files at two depths.
C4_Witness ==
    /\ last.op = "get_output_archive"
    /\ last.err = "none"
    /\ last.args.path = PathArg(<<LIB>>)
    /\ pc = "body"
    /\ Len(last.result) = 3
    /\ last.result[1].name = <<LIB, A_SO>>
    /\ last.result[3].name = <<LIB, SUB, B_SO>>

\* The first place where two paths differ (past the end of the shorter one
\* when one is a prefix of the other).
FirstDifference(p, q) ==
    CHOOSE k \in 1..(Len(p) + 1) :
        /\ \A i \in 1..(k - 1) : i <= Len(q) /\ p[i] = q[i]
        /\ k > Len(p) \/ k > Len(q) \/ p[k] # q[k]

\* p may come before q in a listing sorted at each level: two entries of one
\* directory are in the order of their names, and so are the contents of two
\* subdirectories of one directory.
MayPrecede(p, q) ==
    LET k == FirstDifference(p, q)
    IN ((Len(p) = k /\ Len(q) = k) \/ (Len(p) > k /\ Len(q) > k)) => StrLess(p[k], q[k])

\* C5 (as claimed): on every backend find_output_files yields its paths
\* sorted at each level, in an order that depends only on the tree: it is
\* the same however the filesystem lists its directories.
C5_FindOrderIsSortedAndFixed ==
    (last.op = "find_output_files" /\ pc = "body") =>
        /\ \A i \in 1..Len(last.result), j \in 1..Len(last.result) :
              i < j => MayPrecede(last.result[i], last.result[j])
        /\ context = "container" =>
              \A ord \in ReaddirOrders :
                  ContainerFindOutputFiles(fs, last.args.base_path, last.args.pattern,
                                           ord).result = last.result

\* The files below out/base_path whose name matches, relative to base_path.
MatchingFiles(tree, base_path, pattern) ==
    { DropComponents(e.path, Len(base_path) + 1) :
        e \in { x \in tree : /\ x.kind = "file"
                             /\ IsPrefix(<<OUT>> \o base_path, x.path)
                             /\ fnmatch(Basename(x.path), pattern) } }

\* C6 (as claimed): on every backend find_output_files yields exactly the
\* files below out/base_path whose name matches the pattern, relative to
\* base_path, each once.
C6_FindYieldsExactlyTheMatchingFiles ==
    (last.op = "find_output_files" /\ pc = "body") =>
        LET expected == MatchingFiles(fs, last.args.base_path, last.args.pattern)
        IN /\ { last.result[i] : i \in 1..Len(last.result) } = expected
           /\ Len(last.result) = Cardinality(expected)

\* The archives install_toolchain is asked for, in the order binutils, clang,
\* musl.
SelectedArchives(a) ==
    (IF a.binutils THEN << ContainerToolchainBasename("binutils", a.host_platform) >>
     ELSE <<>>)
    \o (IF a.clang
        THEN << ContainerToolchainBasename(
                    clang_toolchain(a.host_platform, a.target_triple), a.host_platform) >>
        ELSE <<>>)
    \o (IF a.musl THEN << ContainerToolchainBasename("musl", a.host_platform) >> ELSE <<>>)

StepIsFor(step, basename) ==
    step.arg = basename \/ step.arg = TarCommand(basename).text

\* C7: a call of install_toolchain with all three flags false makes no call
\* into the helpers, raises nothing and leaves the Tool Root, the container's
\* /build and the workspace as they were; and with any flags, every step of
\* the call and everything added to the Tool Root belongs to a component
\* whose flag is true.
C7_OnlySelectedComponentsAreInstalled ==
    [][(ncalls' = ncalls + 1 /\ last'.op = "install_toolchain") =>
         LET a == last'.args
             selected == { SelectedArchives(a)[i] : i \in 1..Len(SelectedArchives(a)) }
         IN /\ (~a.binutils /\ ~a.musl /\ ~a.clang) =>
                  /\ last'.steps = <<>>
                  /\ last'.err = "none"
                  /\ tools' = tools
                  /\ build_files' = build_files
                  /\ fs' = fs
            /\ \A i \in 1..Len(last'.steps) :
                  \E b \in selected : StepIsFor(last'.steps[i], b)
            /\ (tools' \ tools) \subseteq selected]_vars

\* C7's case: install_toolchain was called with all flags false on a handle
\* whose Tool Root already held an archive, and the body goes on.
C7_Witness ==
    /\ last.op = "install_toolchain"
    /\ ~last.args.binutils /\ ~last.args.musl /\ ~last.args.clang
    /\ last.args.build_dir # {}
    /\ tools # {}
    /\ pc = "body"

IsStart(step) == step.call \in { "copy_file_to_container", "extract_tar_to_directory" }

\* C8: the installs install_toolchain starts are, in order, a prefix of
\* binutils, clang, musl restricted to the flags that are true; no step
\* follows a failed one; in a container each copy is followed at once by the
\* extraction of the same archive; and the call returns only when all the
\* selected components are installed.
C8_InstallOrderIsBinutilsClangMusl ==
    (last.op = "install_toolchain") =>
        LET expected == SelectedArchives(last.args)
            steps == last.steps
            starts == SelectSeq(steps, IsStart)
        IN /\ Len(starts) <= Len(expected)
           /\ \A i \in 1..Len(starts) : starts[i].arg = expected[i]
           /\ \A i \in 1..(Len(steps) - 1) : steps[i].ok
           /\ \A i \in 1..Len(steps) :
                 (steps[i].call = "copy_file_to_container" /\ steps[i].ok) =>
                     /\ i < Len(steps)
                     /\ steps[i + 1].call = "container_exec"
                     /\ StepIsFor(steps[i + 1], steps[i].arg)
                     /\ steps[i + 1].user = "root"
           /\ (last.err = "none") =>
                 /\ Len(starts) = Len(expected)
                 /\ \A i \in 1..Len(steps) : steps[i].ok
           /\ (last.err # "none") =>
                 /\ steps # <<>>
                 /\ ~steps[Len(steps)].ok

\* C8's case: all three components were selected, the first two were
\* installed and the third failed.
C8_Witness ==
    /\ last.op = "install_toolchain"
    /\ last.args.binutils /\ last.args.musl /\ last.args.clang
    /\ last.args.host_platform = "linux64"
    /\ last.err = "FileNotFoundError"
    /\ Len(SelectSeq(last.steps, IsStart)) = 3
    /\ last.steps[Len(last.steps)].arg = "musl-1.2.3-linux64.tar"
    /\ last.steps[1].arg = "binutils-2.38-linux64.tar"

\* C9: a call of install_toolchain_archive or install_artifact_archive whose
\* archive is not in build_dir raises at once: it makes one step, the failed
\* copy or extraction, never a container_exec, and the Tool Root and the
\* container's /build are as they were.
C9_MissingArchiveFailsAtOnce ==
    [][(/\ ncalls' = ncalls + 1
        /\ last'.op \in { "install_toolchain_archive", "install_artifact_archive" }
        /\ last'.args.build_dir = {}) =>
         /\ last'.err = "FileNotFoundError"
         /\ pc' = "unwinding"
         /\ exc' = "FileNotFoundError"
         /\ Len(last'.steps) = 1
         /\ ~last'.steps[1].ok
         /\ last'.steps[1].call # "container_exec"
         /\ tools' = tools
         /\ build_files' = build_files]_vars

\* C9's case: install_artifact_archive was called on a container handle for
\* an archive that is not in build_dir, after an earlier install.
C9_Witness ==
    /\ last.op = "install_artifact_archive"
    /\ last.args.build_dir = {}
    /\ context = "container"
    /\ tools # {}
    /\ pc = "unwinding"

NotFoundErrors == { "NotFound", "FileNotFoundError", "Exception: file not found" }

\* C10 (as claimed): get_file returns the bytes of the file at path, and on
\* every backend raises a not-found error when path is not a regular file.
C10_GetFileRaisesNotFound ==
    (last.op = "get_file" /\ pc \in { "body", "unwinding" }) =>
        IF IsFile(fs, last.args.path)
        THEN last.err = "none" /\ last.result = EntryAt(fs, last.args.path).data
        ELSE last.err \in NotFoundErrors


\* The directory get_output_archive is asked to capture: out/<subpath>, or
\* out when the subpath is None.
CapturedDir(path) == IF path.isNone THEN <<OUT>> ELSE <<OUT>> \o path.parts

\* C11: whenever get_output_archive has been called on a handle, with a
\* subpath or with None, and the directory it names exists in the workspace,
\* the call has returned (it has not raised) and the archive holds one
\* member for every file of the workspace below that directory.
C11_GetOutputArchiveReturnsSubtreeOrWhole ==
    (/\ last.op = "get_output_archive"
     /\ pc \in { "body", "unwinding" }
     /\ IsDir(fs, CapturedDir(last.args.path))) =>
        /\ last.err = "none"
        /\ Len(last.result) =
              Cardinality({ q \in Paths(fs) :
                  IsFile(fs, q) /\ IsPrefix(CapturedDir(last.args.path), q) })


\* C12: once build_environment has been called, it has created exactly one
\* backend, chosen by the image: with an image given, one container started
\* from that image on a long-running idle command, detached, and a handle
\* with is_isolated true; with no image, one temporary directory and a
\* handle with is_isolated false; never both, and the handle's variant is
\* that of the resource the teardown releases.
C12_BackendChosenByImage ==
    (pc # "init") =>
        /\ (image # "None") =>
              /\ context = "container"
              /\ is_isolated(context)
              /\ container.state \in { "running", "removed" }
              /\ container.image = image
              /\ container.command = "/bin/sleep 86400"
              /\ container.detach
              /\ td = "none"
        /\ (image = "None") =>
              /\ context = "tempdir"
              /\ ~is_isolated(context)
              /\ td \in { "exists", "deleted" }
              /\ container.state = "none"
        /\ ~(container.state # "none" /\ td # "none")
        /\ (pc = "exited") => (is_isolated(context) <=> container.state = "removed")


\* The archive a call has asked its first helper for: the file it copies
\* into the container or extracts into the Tool Root.
ResolvedArchive == last.steps[1].arg

\* C13: on either backend, install_artifact_archive resolves
\* <package>-<version>-<target_triple>-<optimizations>.tar and
\* install_toolchain_archive resolves <package>-<version>-<host_platform>.tar,
\* the version being the DOWNLOADS entry of the package; openssl for
\* x86_64-unknown-linux-gnu with noopt is
\* openssl-1.1.1s-x86_64-unknown-linux-gnu-noopt.tar.
C13_ArchiveNamesAreDetermined ==
    /\ (last.op = "install_artifact_archive") =>
          /\ Len(last.steps) >= 1
          /\ ResolvedArchive =
                last.args.package_name \o "-" \o DOWNLOADS[last.args.package_name].version
                    \o "-" \o last.args.target_triple \o "-" \o last.args.optimizations
                    \o ".tar"
          /\ (/\ last.args.package_name = "openssl"
              /\ last.args.target_triple = "x86_64-unknown-linux-gnu"
              /\ last.args.optimizations = "noopt") =>
                ResolvedArchive = "openssl-1.1.1s-x86_64-unknown-linux-gnu-noopt.tar"
    /\ (last.op = "install_toolchain_archive") =>
          /\ Len(last.steps) >= 1
          /\ ResolvedArchive =
                last.args.package_name \o "-" \o DOWNLOADS[last.args.package_name].version
                    \o "-" \o last.args.host_platform \o ".tar"
          /\ (last.args.package_name = "musl" /\ last.args.host_platform = "linux64") =>
                ResolvedArchive = "musl-1.2.3-linux64.tar"

\* C13's case: a tempdir handle has installed the openssl artifact for
\* x86_64-unknown-linux-gnu, noopt, from the archive of that name.
C13_Witness ==
    /\ context = "tempdir"
    /\ last.op = "install_artifact_archive"
    /\ last.err = "none"
    /\ last.args.package_name = "openssl"
    /\ last.args.target_triple = "x86_64-unknown-linux-gnu"
    /\ last.args.optimizations = "noopt"
    /\ "openssl-1.1.1s-x86_64-unknown-linux-gnu-noopt.tar" \in tools


\* C14: in build-main, when make has exited with a non-zero status, the
\* process exits with that same status and compress_python_archive has not
\* been called; and whenever compress_python_archive has been called, make
\* had run and returned 0 and the make target is "default".
C14_FailedMakeExitsWithItsStatus ==
    /\ (main.pc = "exited" /\ main.make.ran /\ main.make.returncode > 0) =>
          /\ main.exit_status = main.make.returncode
          /\ main.exit_status # 0
    /\ (main.make.ran /\ main.make.returncode # 0) => main.compressed = <<>>
    /\ (main.compressed # <<>>) =>
          /\ main.make.ran
          /\ main.make.returncode = 0
          /\ main.args.make_target = "default"
          /\ Len(main.compressed) = 1

\* C14's case: make, run for the default target, has exited with status 2,
\* and the process has exited with status 2 without writing the archive.
C14_Witness ==
    /\ main.pc = "exited"
    /\ main.make.ran
    /\ main.make.target = "default"
    /\ main.make.returncode = 2
    /\ main.exit_status = 2
    /\ main.compressed = <<>>

\* C15: every choice of --python has a version in DOWNLOADS: once the
\* supported-Pythons check has passed and the version has been looked up,
\* the Python chosen is a key of DOWNLOADS and the lookup has not raised
\* KeyError, and a run that passed the check has reached make by the time
\* the process exits.
C15_EveryPythonChoiceHasAVersion ==
    /\ (/\ main.pc \in { "ready", "made", "ended", "exited" }
        /\ main.args.python \in main.supported_pythons) =>
            main.args.python \in DOMAIN DOWNLOADS
    /\ main.outcome.value # "KeyError"
    /\ (/\ main.pc = "exited"
        /\ main.args.python \in main.supported_pythons) => main.make.ran

====
